---- MODULE Spec2Model ----
(***************************************************************************)
(* Coverage analysis of the LOC analyzer backend: the engine               *)
(* runCoverageAnalysis, the routes that start it (POST /analyze/:moduleId, *)
(* POST /api/questions, POST /api/questions/upload) and the read routes    *)
(* GET /module/:moduleId and GET /stats/:moduleId.                         *)
(*                                                                         *)
(* Every `await` of the code is one step of the request that executes it,  *)
(* so requests interleave exactly where the event loop lets them.          *)
(* Similarity scores are kept in thousandths (0.3 is 300); the arithmetic  *)
(* on them is exact.                                                       *)
(***************************************************************************)
EXTENDS Integers, Sequences, FiniteSets, TLC

VARIABLES
    modules,    \* Module collection: module id -> its learningOutcomes
    questions,  \* Question collection: question id -> the Question document
    coverage,   \* Coverage collection, in insertion order
    req         \* the requests: slot -> request (and the run it executes)

vars == <<modules, questions, coverage, req>>

(***************************************************************************)
(* Bounds                                                                  *)
(***************************************************************************)
MaxReqs == 2         \* requests issued in one behaviour
MaxNewQuestions == 1 \* questions created or uploaded in one behaviour
MaxUpload == 1       \* question texts split out of one uploaded file

Slots == 1..MaxReqs

NULL == "null"
ModuleIds == {"m1", "m2"}
UnknownModule == "m0"
Tags == {NULL, "t1"}
NewQuestionIds == {10 + i : i \in 1..MaxNewQuestions}
NoIds == [given |-> FALSE, ids |-> <<>>]
Ids(list) == [given |-> TRUE, ids |-> list]

\* a learning outcome embedded in a module (learningOutcomeSchema)
LearningOutcome(loId, description, bloomLevel) ==
    [loId |-> loId, description |-> description, bloomLevel |-> bloomLevel]
LO1 == LearningOutcome("LO1", "d1", "Apply")
LO2 == LearningOutcome("LO2", "d2", "Remember")

\* a Question document (questionSchema); the question text is left out, it
\* reaches only the oracle
Question(moduleId, questionType, source, options, correctAnswer) ==
    [moduleId |-> moduleId, questionType |-> questionType, source |-> source,
     options |-> options, correctAnswer |-> correctAnswer,
     \* not a field of the document: the generator's MCQ it was made from
     generated |-> <<>>]
\* questions.js lines 167-172: what the upload route saves for a question text
UploadedQuestion(moduleId) == Question(moduleId, "Structured", "Uploaded", <<>>, "")
\* The requests POST /analyze/:moduleId is given: every module, known or not,
\* under every tag without questionIds; m2 with a list that names its question
\* 3 and question 1 of m1, and with a list that names question 1 only
AnalyzeInputs ==
    {[moduleId |-> m, questionIds |-> NoIds, analysisTag |-> tag] :
        m \in ModuleIds \cup {UnknownModule}, tag \in Tags}
    \cup {[moduleId |-> "m2", questionIds |-> Ids(<<1, 3>>), analysisTag |-> tag] :
        tag \in Tags}
    \cup {[moduleId |-> "m2", questionIds |-> Ids(<<1>>), analysisTag |-> NULL]}
\* options of a request body: absent, or the array given
NoOptions == [given |-> FALSE, list |-> <<>>]
Options(list) == [given |-> TRUE, list |-> list]
\* the body of POST /api/questions; "" is a field left out
Body(moduleId, questionText, questionType, options, correctAnswer) ==
    [moduleId |-> moduleId, questionText |-> questionText,
     questionType |-> questionType, options |-> options,
     correctAnswer |-> correctAnswer]
NoBody == Body("", "", "", NoOptions, "")
\* the questions created: a Structured question in every module, known or not
CreateInputs ==
    {Body(m, "q", "Structured", NoOptions, "") : m \in ModuleIds \cup {UnknownModule}}
\* the modules files are uploaded to
UploadInputs == {"m2", UnknownModule}

(***************************************************************************)
(* The similarity oracle                                                   *)
(***************************************************************************)
\* An oracle call throws ("fail"), or the model's answer parses to NaN ("nan")
\* or to a number ("num"), kept in thousandths
Answer(t, v) == [t |-> t, v |-> v]
Answers(numbers) ==
    {Answer("fail", 0), Answer("nan", 0)} \cup {Answer("num", v) : v \in numbers}
\* the call throws, or answers 0.695
OracleOutcomes == {Answer("fail", 0), Answer("num", 695)}
\* answers out of range, around the relevance threshold (0.3) and around the
\* status thresholds (30 and 70 percent), and 0.8, 0.1, 0.5
FineOutcomes == Answers({0 - 200, 100, 300, 304, 500, 694, 695, 800, 1500})

Min(a, b) == IF a < b THEN a ELSE b
Max(a, b) == IF a > b THEN a ELSE b

calculateSimilarityUnclamped(raw) ==
    IF raw.t = "nan" THEN 0 ELSE raw.v

\* calculateSimilarity: NaN defaults to 0, anything else is clamped to [0,1]
calculateSimilarity(raw) ==
    IF raw.t = "nan" THEN 0 ELSE Max(0, Min(1000, raw.v))

Threshold == 300

IsRelevantGE(similarityScore) == similarityScore >= Threshold

IsRelevantAboveZero(similarityScore) == similarityScore > 0

\* `if (similarityScore > 0.3)`
IsRelevant(similarityScore) == similarityScore > Threshold

\* Math.round(x) for x = num/den >= 0: floor(x + 1/2)
MathRound(num, den) == (2 * num + den) \div (2 * den)

CoveragePercentageOfSum(totalSimilarity, questionCount) ==
    Min(100, MathRound(totalSimilarity, 10))

\* averageSimilarity = questionCount > 0 ? totalSimilarity / questionCount : 0
\* coveragePercentage = Math.min(100, Math.round(averageSimilarity * 100))
CoveragePercentage(totalSimilarity, questionCount) ==
    IF questionCount > 0
    THEN Min(100, MathRound(totalSimilarity, 10 * questionCount))
    ELSE 0

CoveredAt == 70
PartialAt == 30

StatusOfShifted(coveragePercentage) ==
    IF coveragePercentage > CoveredAt THEN "Covered"
    ELSE IF coveragePercentage > PartialAt THEN "Partially Covered"
    ELSE "Not Covered"

StatusOf(coveragePercentage) ==
    IF coveragePercentage >= CoveredAt THEN "Covered"
    ELSE IF coveragePercentage >= PartialAt THEN "Partially Covered"
    ELSE "Not Covered"

(***************************************************************************)
(* Sequence helpers                                                        *)
(***************************************************************************)
RECURSIVE FilterSeq(_, _)
FilterSeq(s, keep) ==
    IF s = <<>> THEN <<>>
    ELSE IF Head(s) \in keep THEN <<Head(s)>> \o FilterSeq(Tail(s), keep)
    ELSE FilterSeq(Tail(s), keep)

Range(s) == {s[i] : i \in DOMAIN s}

RECURSIVE SetToSeq(_)
\* a set of integers as an ascending sequence (_id order of a find())
SetToSeq(S) ==
    IF S = {} THEN <<>>
    ELSE LET x == CHOOSE y \in S : \A z \in S : y <= z
         IN <<x>> \o SetToSeq(S \ {x})

RECURSIVE SumSeq(_)
SumSeq(s) == IF s = <<>> THEN 0 ELSE Head(s) + SumSeq(Tail(s))

(***************************************************************************)
(* Queries                                                                 *)
(***************************************************************************)
\* `analysisTag || null`
ScopeOf(analysisTag) == IF analysisTag = "" THEN NULL ELSE analysisTag

InScopeAnyTag(rec, moduleId, analysisTag) == rec.moduleId = moduleId

\* the filter { moduleId, analysisTag } or, for the default scope,
\* { moduleId, $or: [{analysisTag: {$exists: false}}, {analysisTag: null}] }
InScope(rec, moduleId, analysisTag) ==
    /\ rec.moduleId = moduleId
    /\ rec.analysisTag = ScopeOf(analysisTag)

ScopeRecords(store, moduleId, analysisTag) ==
    FilterSeq(store, {rec \in Range(store) : InScope(rec, moduleId, analysisTag)})

OtherRecordsAndScope(store, moduleId, analysisTag) == store

OtherRecords(store, moduleId, analysisTag) ==
    FilterSeq(store, {rec \in Range(store) : ~InScope(rec, moduleId, analysisTag)})

ResolveQuestionsAnyModule(qs, moduleId, questionIds) ==
    IF questionIds.given /\ Len(questionIds.ids) > 0
    THEN SetToSeq({q \in DOMAIN qs : q \in Range(questionIds.ids)})
    ELSE SetToSeq({q \in DOMAIN qs : qs[q].moduleId = moduleId})

\* Question.find({ moduleId, _id: { $in: questionIds } }) when questionIds is
\* given and not empty, Question.find({ moduleId }) otherwise
ResolveQuestions(qs, moduleId, questionIds) ==
    IF questionIds.given /\ Len(questionIds.ids) > 0
    THEN SetToSeq({q \in DOMAIN qs : qs[q].moduleId = moduleId /\ q \in Range(questionIds.ids)})
    ELSE SetToSeq({q \in DOMAIN qs : qs[q].moduleId = moduleId})

(***************************************************************************)
(* The read routes                                                         *)
(***************************************************************************)
RECURSIVE InsertDesc(_, _)
InsertDesc(rec, sorted) ==
    IF sorted = <<>> THEN <<rec>>
    ELSE IF rec.analyzedAt > Head(sorted).analyzedAt THEN <<rec>> \o sorted
    ELSE <<Head(sorted)>> \o InsertDesc(rec, Tail(sorted))

SortUnsorted(recs) == recs

RECURSIVE SortMostRecentFirst(_)
\* .sort({ analyzedAt: -1 })
SortMostRecentFirst(recs) ==
    IF recs = <<>> THEN <<>>
    ELSE InsertDesc(Head(recs), SortMostRecentFirst(Tail(recs)))

RECURSIVE Deduplicate(_, _)
\* lines 249-255: the first report of each loId, in the order met
Deduplicate(recs, seen) ==
    IF recs = <<>> THEN <<>>
    ELSE IF Head(recs).loId \in seen THEN Deduplicate(Tail(recs), seen)
    ELSE <<Head(recs)>> \o Deduplicate(Tail(recs), seen \cup {Head(recs).loId})

\* GET /module/:moduleId, lines 233-255: the deduplicated reports
GetReport(store, moduleId, analysisTag) ==
    Deduplicate(SortMostRecentFirst(ScopeRecords(store, moduleId, analysisTag)), {})

CountStatus(recs, status) ==
    Cardinality({i \in DOMAIN recs : recs[i].status = status})

SumPercentage(recs) == SumSeq([i \in DOMAIN recs |-> recs[i].coveragePercentage])

\* GET /stats/:moduleId, lines 365-375: the tallies over what Coverage.find
\* returned, for the module read at line 346
StatsOf(learningOutcomes, coverageReports) ==
    [totalLOs |-> Len(learningOutcomes),
     covered |-> CountStatus(coverageReports, "Covered"),
     partiallyCovered |-> CountStatus(coverageReports, "Partially Covered"),
     notCovered |-> CountStatus(coverageReports, "Not Covered"),
     averageCoverage |->
         IF Len(coverageReports) > 0
         THEN MathRound(SumPercentage(coverageReports), Len(coverageReports))
         ELSE 0]

\* GET /stats/:moduleId, lines 355-375
GetStats(store, moduleId, analysisTag) ==
    StatsOf(modules[moduleId], ScopeRecords(store, moduleId, analysisTag))

\* lines 274-286: a report joined to the module's learning outcome of its loId
EnrichUnjoined(learningOutcomes, report) ==
    [loId |-> report.loId, description |-> "Unknown", bloomLevel |-> "Unknown",
     coveragePercentage |-> report.coveragePercentage, status |-> report.status,
     questionsCoveredCount |-> Len(report.questionsCovered),
     analyzedAt |-> report.analyzedAt]

Enrich(learningOutcomes, report) ==
    LET found == {k \in DOMAIN learningOutcomes : learningOutcomes[k].loId = report.loId}
        lo == learningOutcomes[CHOOSE k \in found : \A j \in found : k <= j]
    IN [loId |-> report.loId,
        description |-> IF found # {} THEN lo.description ELSE "Unknown",
        bloomLevel |-> IF found # {} THEN lo.bloomLevel ELSE "Unknown",
        coveragePercentage |-> report.coveragePercentage,
        status |-> report.status,
        questionsCoveredCount |-> Len(report.questionsCovered),
        analyzedAt |-> report.analyzedAt]

ListTagsAnyModule(store, moduleId) ==
    {rec.analysisTag : rec \in {x \in Range(store) : x.analysisTag # NULL}}

\* GET /analysis-tags/:moduleId, lines 324-331: Coverage.distinct
ListTags(store, moduleId) ==
    {tag \in {rec.analysisTag : rec \in {x \in Range(store) :
                                           x.moduleId = moduleId /\ x.analysisTag # NULL}} :
        tag # NULL}

(***************************************************************************)
(* Question validation                                                     *)
(***************************************************************************)
\* String.prototype.trim on the strings used here: "", " ", and words
Trim(s) == IF s = " " THEN "" ELSE s

\* options.filter(opt => opt && opt.trim().length > 0)
ValidOptions(list) == FilterSeq(list, {opt \in Range(list) : Trim(opt) # ""})

\* questions.js lines 216-247: the checks that answer 400
CreateRejects(body) ==
    IF body.moduleId = "" \/ body.questionText = "" \/ body.questionType = "" THEN TRUE
    ELSE IF body.questionType \notin {"MCQ", "Structured"} THEN TRUE
    ELSE IF body.questionType = "MCQ"
    THEN IF ~body.options.given \/ Len(body.options.list) < 2 THEN TRUE
         ELSE Len(ValidOptions(body.options.list)) < 2
    ELSE FALSE

\* questions.js lines 259-268: new Question({...}) of the create route
CreatedQuestion(body) ==
    Question(body.moduleId, body.questionType, "Manual",
             IF body.questionType = "MCQ" THEN ValidOptions(body.options.list) ELSE <<>>,
             IF body.questionType = "MCQ" THEN Trim(body.correctAnswer) ELSE "")

\* questionText is required by questionSchema: save() rejects an empty string
SaveRejects(questionText) == Trim(questionText) = ""

(***************************************************************************)
(* Requests                                                                *)
(***************************************************************************)
NoResponse == [status |-> 0, success |-> FALSE]

\* what a read route answers with: the results of getReport, the stats of
\* getStats, the tags of listTags
NoResult == [results |-> <<>>, stats |-> <<>>, tags |-> {}]

\* the locals of runCoverageAnalysis, before it is called and after it returned
\* asked: the oracle's answers for the current learning outcome, in the order
\* of qs; threw: an oracle call of this run has thrown; old: the records its
\* deleteMany removed
NoRun == [module |-> <<>>, qs |-> <<>>, li |-> 0, qi |-> 0,
          questionsCovered |-> <<>>, totalSimilarity |-> 0, doc |-> <<>>,
          asked |-> <<>>, threw |-> FALSE, old |-> <<>>]

Idle == [kind |-> "none", pc |-> "idle", moduleId |-> NULL, body |-> NoBody,
         mcqs |-> <<>>,
         questionIds |-> NoIds, analysisTag |-> NULL, left |-> 0,
         response |-> NoResponse, result |-> NoResult, locals |-> NoRun,
         \* what became of the run this request made: none, running, skipped
         \* (early return), completed, failed (the catch of line 126)
         run |-> "none", failedAt |-> "none", superseded |-> FALSE,
         \* no other run wrote to Coverage since this one was called; the records
         \* outside its scope when it was called; how many records of its
         \* scope its deleteMany removed
         alone |-> TRUE, before |-> <<>>, replaced |-> 0,
         \* the ids of the questions this request has saved; the module and
         \* scope label that its run was called for
         saved |-> {}, scope |-> <<>>]

RunPcs == {"module", "questions", "delete", "oracle", "save"}

Running(r) == req[r].pc \in RunPcs

Init ==
    /\ modules = [m \in ModuleIds |-> IF m = "m1" THEN <<LO1, LO2>> ELSE <<LO1>>]
    /\ questions = (1 :> UploadedQuestion("m1")) @@ (3 :> UploadedQuestion("m2"))
    /\ coverage = <<>>
    /\ req = [r \in Slots |-> Idle]

\* the records of the store that are not of module m under scope label tag
RecordsOutside(store, m, tag) ==
    FilterSeq(store, {rec \in Range(store) :
                        ~(rec.moduleId = m /\ rec.analysisTag = tag)})

\* requests take the slots in order
Free(r) ==
    /\ req[r].kind = "none"
    /\ IF r = 1 THEN TRUE ELSE req[r - 1].kind # "none"

ObservedByNone(r, next) == [req EXCEPT ![r] = next]

\* a write of the run of slot r to the Coverage collection falls inside every
\* other run in progress
Observed(r, next) ==
    [s \in Slots |->
        IF s = r THEN next
        ELSE IF Running(s) THEN [req[s] EXCEPT !.alone = FALSE]
        ELSE req[s]]

\* a request that is over keeps its response and what became of its run
Forget(q) ==
    [q EXCEPT !.moduleId = NULL, !.body = NoBody, !.mcqs = <<>>,
              !.questionIds = NoIds, !.analysisTag = NULL,
              !.left = 0, !.locals = NoRun, !.before = <<>>]

Respond(q, status) ==
    [Forget(q) EXCEPT !.pc = "done",
                      !.response = [status |-> status, success |-> status < 400]]

\* the call runCoverageAnalysis(moduleId, questionIds, analysisTag): it runs
\* up to its first await, Module.findById
CallRun(q) ==
    [q EXCEPT !.pc = "module", !.run = "running", !.alone = TRUE,
              !.scope = <<[moduleId |-> q.moduleId,
                           analysisTag |-> ScopeOf(q.analysisTag)]>>,
              !.before = RecordsOutside(coverage, q.moduleId, q.analysisTag)]

ReturnPropagates(q, outcome, failedAt) ==
    IF failedAt # "none"
    THEN [Respond(q, 500) EXCEPT !.run = outcome, !.failedAt = failedAt]
    ELSE IF q.kind = "analyze"
    THEN [q EXCEPT !.pc = "r_find", !.run = outcome, !.failedAt = failedAt,
                   !.locals = NoRun, !.before = <<>>]
    ELSE [Forget(q) EXCEPT !.pc = "done", !.run = outcome, !.failedAt = failedAt]

\* runCoverageAnalysis returns: by an early return, by falling off its end,
\* or out of its catch, which only logs.  The awaiting route goes on to line
\* 172; a background caller has nothing left to do.
Return(q, outcome, failedAt) ==
    IF q.kind = "analyze"
    THEN [q EXCEPT !.pc = "r_find", !.run = outcome, !.failedAt = failedAt,
                   !.locals = NoRun, !.before = <<>>]
    ELSE [Forget(q) EXCEPT !.pc = "done", !.run = outcome, !.failedAt = failedAt]

(***************************************************************************)
(* runCoverageAnalysis, one step per await                                 *)
(***************************************************************************)
\* line 28: Module.findById, and the early return of lines 29-32
FindModule(r) ==
    /\ req[r].pc = "module"
    /\ \E ok \in BOOLEAN :
         LET q == req[r]
             next ==
               IF ~ok THEN Return(q, "failed", "read")
               ELSE IF q.moduleId \notin DOMAIN modules
                       \/ Len(modules[q.moduleId]) = 0
               THEN Return(q, "skipped", "none")
               ELSE [q EXCEPT !.pc = "questions",
                              !.locals.module = modules[q.moduleId]]
         IN req' = [req EXCEPT ![r] = next]
    /\ UNCHANGED <<modules, questions, coverage>>

FindQuestionsSupersedes(r) ==
    /\ req[r].pc = "questions"
    /\ \E ok \in BOOLEAN :
         LET q == req[r]
             found == ResolveQuestions(questions, q.moduleId, q.questionIds)
         IN /\ req' = [req EXCEPT ![r] =
                  IF ~ok THEN Return(q, "failed", "read")
                  ELSE IF Len(found) = 0 THEN Return(q, "skipped", "none")
                  ELSE [q EXCEPT !.pc = "delete", !.locals.qs = found]]
            /\ coverage' = IF ok /\ Len(found) = 0
                           THEN OtherRecords(coverage, q.moduleId, q.analysisTag)
                           ELSE coverage
    /\ UNCHANGED <<modules, questions>>

\* lines 35-48: Question.find, and the early return on an empty result
FindQuestions(r) ==
    /\ req[r].pc = "questions"
    /\ \E ok \in BOOLEAN :
         LET q == req[r]
             found == ResolveQuestions(questions, q.moduleId, q.questionIds)
             next ==
               IF ~ok THEN Return(q, "failed", "read")
               ELSE IF Len(found) = 0 THEN Return(q, "skipped", "none")
               ELSE [q EXCEPT !.pc = "delete", !.locals.qs = found]
         IN req' = [req EXCEPT ![r] = next]
    /\ UNCHANGED <<modules, questions, coverage>>

\* lines 51-62: Coverage.deleteMany on the run's scope
Supersede(r) ==
    /\ req[r].pc = "delete"
    /\ \E ok \in BOOLEAN :
         LET q == req[r]
         IN IF ~ok
            THEN /\ req' = [req EXCEPT ![r] = Return(q, "failed", "delete")]
                 /\ UNCHANGED coverage
            ELSE /\ coverage' = OtherRecords(coverage, q.moduleId, q.analysisTag)
                 /\ req' = Observed(r,
                      [q EXCEPT !.pc = "oracle", !.superseded = TRUE,
                                !.replaced = Len(ScopeRecords(coverage, q.moduleId,
                                                              q.analysisTag)),
                                !.locals.old = ScopeRecords(coverage, q.moduleId,
                                                            q.analysisTag),
                                !.locals.li = 1, !.locals.qi = 1])
    /\ UNCHANGED <<modules, questions>>

RECURSIVE MaxOf(_)
MaxOf(S) == IF S = {} THEN 0
            ELSE LET x == CHOOSE y \in S : TRUE IN Max(x, MaxOf(S \ {x}))

\* Date.now() of Coverage.js line 42, read when a record is built.  The clock
\* is taken to advance between any two records, and only the order of the
\* timestamps is kept: the next one follows every timestamp still in use, in
\* the collection or in a record built and not yet saved.
Now ==
    1 + MaxOf({coverage[i].analyzedAt : i \in DOMAIN coverage}
              \cup {req[s].locals.doc[1].analyzedAt :
                       s \in {x \in Slots : req[x].locals.doc # <<>>}})

NewCoverageCounting(r, q, questionsCovered, totalSimilarity, now) ==
    LET coveragePercentage == CoveragePercentage(totalSimilarity, Len(questionsCovered))
    IN [moduleId |-> q.moduleId,
        loId |-> q.locals.module[q.locals.li].loId,
        coveragePercentage |-> coveragePercentage,
        status |-> StatusOf(coveragePercentage),
        questionsCovered |-> questionsCovered,
        analyzedAt |-> now,
        analysisTag |-> ScopeOf(q.analysisTag),
        questionCount |-> Len(q.locals.qs) + Len(q.locals.old),
        analyzedQuestions |-> q.questionIds,
        writer |-> r, qs |-> q.locals.qs, asked |-> q.locals.asked]

\* lines 111-120: new Coverage({...}); analyzedAt defaults to Date.now()
NewCoverage(r, q, questionsCovered, totalSimilarity, now) ==
    LET coveragePercentage == CoveragePercentage(totalSimilarity, Len(questionsCovered))
    IN [moduleId |-> q.moduleId,
        loId |-> q.locals.module[q.locals.li].loId,
        coveragePercentage |-> coveragePercentage,
        status |-> StatusOf(coveragePercentage),
        questionsCovered |-> questionsCovered,
        analyzedAt |-> now,
        analysisTag |-> ScopeOf(q.analysisTag),
        questionCount |-> Len(q.locals.qs),
        analyzedQuestions |-> q.questionIds,
        \* not fields of the document: the run that built it, the questions
        \* it resolved and the oracle's answers for this learning outcome
        writer |-> r, qs |-> q.locals.qs, asked |-> q.locals.asked]

\* lines 74-93: one question against the learning outcome; what is pushed
\* on questionsCovered (nothing when the call throws or the score is low)
Compare(q, outcome, question) ==
    IF outcome.t = "fail" THEN <<>>
    ELSE IF IsRelevant(calculateSimilarity(outcome))
    THEN <<[questionId |-> question, similarityScore |-> calculateSimilarity(outcome)]>>
    ELSE <<>>

OracleStepOfLastQuestion(r, outcome) ==
    LET q == req[r]
        question == q.locals.qs[Len(q.locals.qs)]
        pushed == Compare(q, outcome, question)
        asked == [q EXCEPT !.locals.asked = Append(@, outcome)]
    IN /\ req' = [req EXCEPT ![r] =
            [asked EXCEPT !.locals.threw = outcome.t = "fail",
                          !.locals.questionsCovered = pushed,
                          !.locals.totalSimilarity =
                              SumSeq([i \in DOMAIN pushed |-> pushed[i].similarityScore]),
                          !.locals.qi = 0,
                          !.locals.doc = <<NewCoverage(r, asked, pushed,
                              SumSeq([i \in DOMAIN pushed |-> pushed[i].similarityScore]),
                              Now)>>,
                          !.pc = "save"]]
       /\ UNCHANGED <<modules, questions, coverage>>

\* lines 73-120: calculateSimilarity has answered for the next question;
\* after the last question of the learning outcome the record is built
OracleStep(r, outcome) ==
    LET q == req[r]
        question == q.locals.qs[q.locals.qi]
        pushed == Compare(q, outcome, question)
        questionsCovered == q.locals.questionsCovered \o pushed
        totalSimilarity == q.locals.totalSimilarity
            + SumSeq([i \in DOMAIN pushed |-> pushed[i].similarityScore])
        last == q.locals.qi = Len(q.locals.qs)
    IN /\ req' = [req EXCEPT ![r] =
            [q EXCEPT !.locals.asked = Append(q.locals.asked, outcome),
                      !.locals.threw = q.locals.threw \/ outcome.t = "fail",
                      !.locals.questionsCovered = questionsCovered,
                      !.locals.totalSimilarity = totalSimilarity,
                      !.locals.qi = IF last THEN 0 ELSE q.locals.qi + 1,
                      !.locals.doc = IF last
                          THEN <<NewCoverage(r,
                                    [q EXCEPT !.locals.asked = Append(@, outcome)],
                                    questionsCovered, totalSimilarity, Now)>>
                          ELSE <<>>,
                      !.pc = IF last THEN "save" ELSE "oracle"]]
       /\ UNCHANGED <<modules, questions, coverage>>

OracleRethrows(r, outcomes) ==
    /\ req[r].pc = "oracle"
    /\ \E outcome \in outcomes :
         IF outcome.t = "fail"
         THEN /\ req' = [req EXCEPT ![r] = Return(req[r], "failed", "oracle")]
              /\ UNCHANGED <<modules, questions, coverage>>
         ELSE OracleStep(r, outcome)

\* the await of line 76, with any answer the oracle can give
Oracle(r, outcomes) ==
    /\ req[r].pc = "oracle"
    /\ \E outcome \in outcomes : OracleStep(r, outcome)

SaveOrRollBack(r) ==
    /\ req[r].pc = "save"
    /\ \E ok \in BOOLEAN :
         LET q == req[r]
             done == q.locals.li = Len(q.locals.module)
         IN IF ~ok
            THEN /\ req' = [req EXCEPT ![r] = Return(q, "failed", "save")]
                 /\ coverage' = OtherRecords(coverage, q.moduleId, q.analysisTag)
                                    \o q.locals.old
            ELSE /\ coverage' = Append(coverage, q.locals.doc[1])
                 /\ req' = Observed(r,
                      IF done THEN Return(q, "completed", "none")
                      ELSE [q EXCEPT !.pc = "oracle",
                                     !.locals.li = q.locals.li + 1,
                                     !.locals.qi = 1,
                                     !.locals.questionsCovered = <<>>,
                                     !.locals.totalSimilarity = 0,
                                     !.locals.asked = <<>>,
                                     !.locals.doc = <<>>])
    /\ UNCHANGED <<modules, questions>>

\* line 122: coverage.save(), then the next learning outcome or the end
Save(r) ==
    /\ req[r].pc = "save"
    /\ \E ok \in BOOLEAN :
         LET q == req[r]
             done == q.locals.li = Len(q.locals.module)
         IN IF ~ok
            THEN /\ req' = [req EXCEPT ![r] = Return(q, "failed", "save")]
                 /\ UNCHANGED coverage
            ELSE /\ coverage' = Append(coverage, q.locals.doc[1])
                 /\ req' = Observed(r,
                      IF done THEN Return(q, "completed", "none")
                      ELSE [q EXCEPT !.pc = "oracle",
                                     !.locals.li = q.locals.li + 1,
                                     !.locals.qi = 1,
                                     !.locals.questionsCovered = <<>>,
                                     !.locals.totalSimilarity = 0,
                                     !.locals.asked = <<>>,
                                     !.locals.doc = <<>>])
    /\ UNCHANGED <<modules, questions>>

(***************************************************************************)
(* POST /api/coverage/analyze/:moduleId                                    *)
(***************************************************************************)
\* lines 139-149: the request arrives with its moduleId, questionIds and
\* analysisTag, and Module.findById answers
Analyze(r, inputs) ==
    /\ Free(r)
    /\ \E in \in inputs, ok \in BOOLEAN :
         LET q == [Idle EXCEPT !.kind = "analyze", !.moduleId = in.moduleId,
                               !.questionIds = in.questionIds,
                               !.analysisTag = in.analysisTag]
         IN req' = [req EXCEPT ![r] =
                IF ~ok THEN Respond(q, 500)
                ELSE IF q.moduleId \notin DOMAIN modules THEN Respond(q, 404)
                ELSE [q EXCEPT !.pc = "r_questions"]]
    /\ UNCHANGED <<modules, questions, coverage>>

\* lines 152-170: the route's own question query, then the call of the run
AnalyzeFindQuestions(r) ==
    /\ req[r].pc = "r_questions"
    /\ \E ok \in BOOLEAN :
         LET q == req[r]
             found == ResolveQuestions(questions, q.moduleId, q.questionIds)
         IN req' = [req EXCEPT ![r] =
                IF ~ok THEN Respond(q, 500)
                ELSE IF Len(found) = 0 THEN Respond(q, 400)
                ELSE CallRun(q)]
    /\ UNCHANGED <<modules, questions, coverage>>

\* lines 184-196: what the route answers for one record of the scope (the
\* description and bloomLevel it joins in are left out; questionCount is the
\* record's, which is never 0); writer is not a field of the answer
AnalyzeResult(report) ==
    [loId |-> report.loId,
     coveragePercentage |-> report.coveragePercentage,
     status |-> report.status,
     questionsCovered |-> Len(report.questionsCovered),
     analysisTag |-> report.analysisTag,
     questionCount |-> report.questionCount,
     writer |-> report.writer]

\* lines 172-212: Coverage.find on the scope and the response
AnalyzeRespond(r) ==
    /\ req[r].pc = "r_find"
    /\ \E ok \in BOOLEAN :
         LET q == req[r]
             coverageReports == ScopeRecords(coverage, q.moduleId, q.analysisTag)
             coverageResults == [i \in DOMAIN coverageReports |->
                                    AnalyzeResult(coverageReports[i])]
         IN req' = [req EXCEPT ![r] =
                IF ok THEN [Respond(q, 200) EXCEPT !.result.results = coverageResults]
                ELSE Respond(q, 500)]
    /\ UNCHANGED <<modules, questions, coverage>>

(***************************************************************************)
(* POST /api/questions and POST /api/questions/upload                      *)
(***************************************************************************)
\* question documents still to be saved by the requests in progress
Pending == SumSeq([r \in Slots |-> req[r].left])

Created == Cardinality(DOMAIN questions \cap NewQuestionIds)

NextQuestionId == CHOOSE i \in NewQuestionIds \ DOMAIN questions :
                      \A j \in NewQuestionIds \ DOMAIN questions : i <= j

TriggerWithoutRun(q) ==
    [Forget(q) EXCEPT !.pc = "done", !.response = [status |-> 201, success |-> TRUE]]

\* questions.js lines 273-281 and 181-190: the run is called and not awaited,
\* and the response is sent in the same turn
Trigger(q) ==
    [CallRun(q) EXCEPT !.body = NoBody,
                       !.response = [status |-> 201, success |-> TRUE]]

\* questions.js lines 214-256: the request arrives, its body is validated and
\* Module.findById answers
CreateQuestion(r, bodies) ==
    /\ Free(r)
    /\ Created + Pending < MaxNewQuestions
    /\ \E body \in bodies, ok \in BOOLEAN :
         LET q == [Idle EXCEPT !.kind = "create", !.moduleId = body.moduleId,
                               !.body = body]
         IN req' = [req EXCEPT ![r] =
                IF CreateRejects(body) THEN Respond(q, 400)
                ELSE IF ~ok THEN Respond(q, 500)
                ELSE IF body.moduleId \notin DOMAIN modules THEN Respond(q, 404)
                ELSE [q EXCEPT !.pc = "c_save", !.left = 1]]
    /\ UNCHANGED <<modules, questions, coverage>>

\* questions.js lines 259-281: question.save(), then the trigger and the response
CreateSave(r) ==
    /\ req[r].pc = "c_save"
    /\ \E ok \in BOOLEAN :
         LET q == req[r]
         IN IF ~ok \/ SaveRejects(q.body.questionText)
            THEN /\ req' = [req EXCEPT ![r] = Respond(q, 500)]
                 /\ UNCHANGED questions
            ELSE /\ questions' = questions @@ (NextQuestionId :> CreatedQuestion(q.body))
                 /\ req' = [req EXCEPT ![r] =
                        Trigger([q EXCEPT !.left = 0, !.saved = {NextQuestionId}])]
    /\ UNCHANGED <<modules, coverage>>

\* questions.js lines 130-162: the file arrives, Module.findById answers, the
\* text is extracted and split into n question texts
Upload(r, moduleIds) ==
    /\ Free(r)
    /\ \E m \in moduleIds, n \in 0..MaxUpload, ok \in BOOLEAN :
         LET q == [Idle EXCEPT !.kind = "upload", !.moduleId = m]
         IN /\ Created + Pending + n <= MaxNewQuestions
            /\ req' = [req EXCEPT ![r] =
                IF m = "" THEN Respond(q, 400)
                ELSE IF ~ok THEN Respond(q, 500)
                ELSE IF m \notin DOMAIN modules THEN Respond(q, 404)
                ELSE [q EXCEPT !.pc = "u_save", !.left = n]]
    /\ UNCHANGED <<modules, questions, coverage>>

\* questions.js lines 166-175: question.save() of the next question text
UploadSave(r) ==
    /\ req[r].pc = "u_save"
    /\ req[r].left > 0
    /\ \E ok \in BOOLEAN :
         LET q == req[r]
         IN IF ~ok
            THEN /\ req' = [req EXCEPT ![r] = Respond(q, 500)]
                 /\ UNCHANGED questions
            ELSE /\ questions' = questions @@ (NextQuestionId :> UploadedQuestion(q.moduleId))
                 /\ req' = [req EXCEPT ![r].left = q.left - 1,
                                       ![r].saved = q.saved \cup {NextQuestionId}]
    /\ UNCHANGED <<modules, coverage>>

\* questions.js lines 178-190: fs.unlink, then the trigger and the response
UploadFinish(r) ==
    /\ req[r].pc = "u_save"
    /\ req[r].left = 0
    /\ \E ok \in BOOLEAN :
         req' = [req EXCEPT ![r] = IF ok THEN Trigger(req[r]) ELSE Respond(req[r], 500)]
    /\ UNCHANGED <<modules, questions, coverage>>

(***************************************************************************)
(* GET /module/:moduleId, GET /stats/:moduleId, GET /analysis-tags/:moduleId *)
(***************************************************************************)
\* what the read routes are asked for
ReadInputs ==
    {[moduleId |-> "m1", analysisTag |-> tag] : tag \in Tags}
    \cup {[moduleId |-> UnknownModule, analysisTag |-> NULL]}

\* the request of a read route arrives and Module.findById answers
ReadModule(r, kind, pc) ==
    /\ Free(r)
    /\ \E in \in ReadInputs, ok \in BOOLEAN :
         LET q == [Idle EXCEPT !.kind = kind, !.moduleId = in.moduleId,
                               !.analysisTag = in.analysisTag]
         IN req' = [req EXCEPT ![r] =
                IF ~ok THEN [Respond(q, 500) EXCEPT !.failedAt = "read"]
                ELSE IF q.moduleId \notin DOMAIN modules THEN Respond(q, 404)
                ELSE [q EXCEPT !.pc = pc, !.locals.module = modules[q.moduleId]]]
    /\ UNCHANGED <<modules, questions, coverage>>

\* lines 221-230
Report(r) == ReadModule(r, "report", "g_find")

\* lines 232-303: Coverage.find sorted, the deduplication, the join with the
\* module's learning outcomes and the response
ReportFind(r) ==
    /\ req[r].pc = "g_find"
    /\ \E ok \in BOOLEAN :
         LET q == req[r]
             deduplicatedReports == GetReport(coverage, q.moduleId, q.analysisTag)
             results == [i \in DOMAIN deduplicatedReports |->
                            Enrich(q.locals.module, deduplicatedReports[i])]
         IN req' = [req EXCEPT ![r] =
                IF ok THEN [Respond(q, 200) EXCEPT !.result.results = results]
                ELSE [Respond(q, 500) EXCEPT !.failedAt = "read"]]
    /\ UNCHANGED <<modules, questions, coverage>>

\* lines 343-352
Stats(r) == ReadModule(r, "stats", "s_find")

\* lines 354-380: Coverage.find, the tallies and the response
StatsFind(r) ==
    /\ req[r].pc = "s_find"
    /\ \E ok \in BOOLEAN :
         LET q == req[r]
             stats == StatsOf(q.locals.module,
                              ScopeRecords(coverage, q.moduleId, q.analysisTag))
         IN req' = [req EXCEPT ![r] =
                IF ok THEN [Respond(q, 200) EXCEPT !.result.stats = <<stats>>]
                ELSE Respond(q, 500)]
    /\ UNCHANGED <<modules, questions, coverage>>

\* lines 320-339: the route does not look the module up
AnalysisTags(r) ==
    /\ Free(r)
    /\ \E m \in {in.moduleId : in \in ReadInputs}, ok \in BOOLEAN :
         LET q == [Idle EXCEPT !.kind = "tags"]
         IN req' = [req EXCEPT ![r] =
                IF ok THEN [Respond(q, 200) EXCEPT !.result.tags = ListTags(coverage, m),
                                                   !.moduleId = m]
                ELSE Respond(q, 500)]
    /\ UNCHANGED <<modules, questions, coverage>>

(***************************************************************************)
(* The module routes, PUT and DELETE /api/questions/:id                    *)
(***************************************************************************)
\* the learningOutcomes a module is updated to
LO1e == LearningOutcome("LO1", "d1e", "Analyze")
LOLists == {<<>>, <<LO1e>>}
\* the module that is created, and the module and the questions that are deleted
NewModules == {"m2"}
OldModules == {"m1"}
OldQuestions == {1, 2}

Restrict(f, S) == [x \in S |-> f[x]]

\* modules.js lines 66-109: POST /api/modules saves a module, here one
\* without learning outcomes
CreateModule ==
    /\ \E m \in NewModules \ DOMAIN modules :
         modules' = modules @@ (m :> <<>>)
    /\ UNCHANGED <<questions, coverage, req>>

\* modules.js lines 115-147: PUT /api/modules/:id with learningOutcomes given
UpdateModule ==
    /\ \E m \in OldModules \cap DOMAIN modules, learningOutcomes \in LOLists :
         modules' = [modules EXCEPT ![m] = learningOutcomes]
    /\ UNCHANGED <<questions, coverage, req>>

DeleteModuleCascade ==
    /\ \E m \in OldModules \cap DOMAIN modules :
         /\ modules' = Restrict(modules, DOMAIN modules \ {m})
         /\ coverage' = FilterSeq(coverage, {rec \in Range(coverage) : rec.moduleId # m})
    /\ UNCHANGED <<questions, req>>

\* modules.js lines 153-176: DELETE /api/modules/:id, Module.findByIdAndDelete
DeleteModule ==
    /\ \E m \in OldModules \cap DOMAIN modules :
         modules' = Restrict(modules, DOMAIN modules \ {m})
    /\ UNCHANGED <<questions, coverage, req>>

\* questions.js lines 350-373: DELETE /api/questions/:id
DeleteQuestion ==
    /\ \E id \in OldQuestions \cap DOMAIN questions :
         questions' = Restrict(questions, DOMAIN questions \ {id})
    /\ UNCHANGED <<modules, coverage, req>>

\* the body of PUT /api/questions/:id; "" is a field left out
UpdateBody(questionText, questionType, options, correctAnswer) ==
    [questionText |-> questionText, questionType |-> questionType,
     options |-> options, correctAnswer |-> correctAnswer]

\* questions.js lines 309-317: question.questionType after the body's type
UpdatedType(question, body) ==
    IF body.questionType # "" THEN body.questionType ELSE question.questionType

\* questions.js lines 309-324: the checks that answer 400
UpdateRejects(question, body) ==
    IF body.questionType # "" /\ body.questionType \notin {"MCQ", "Structured"} THEN TRUE
    ELSE /\ body.options.given
         /\ UpdatedType(question, body) = "MCQ"
         /\ Len(ValidOptions(body.options.list)) < 2

\* questions.js lines 308-329: the document that is saved
UpdatedQuestion(question, body) ==
    [question EXCEPT
        !.questionType = UpdatedType(question, body),
        !.options = IF body.options.given THEN ValidOptions(body.options.list) ELSE @,
        !.correctAnswer = IF body.correctAnswer # "" THEN Trim(body.correctAnswer) ELSE @]

\* questions.js lines 294-344: PUT /api/questions/:id; a body that is
\* rejected, or whose text save() rejects, leaves the document as it was
UpdateQuestion(bodies) ==
    /\ \E id \in OldQuestions \cap DOMAIN questions, body \in bodies :
         /\ ~UpdateRejects(questions[id], body)
         /\ ~(body.questionText # "" /\ SaveRejects(body.questionText))
         /\ questions' = [questions EXCEPT ![id] = UpdatedQuestion(questions[id], body)]
    /\ UNCHANGED <<modules, coverage, req>>

Next ==
    \E r \in Slots :
        \/ Analyze(r, AnalyzeInputs) \/ AnalyzeFindQuestions(r) \/ AnalyzeRespond(r)
        \/ CreateQuestion(r, CreateInputs) \/ CreateSave(r)
        \/ Upload(r, UploadInputs) \/ UploadSave(r) \/ UploadFinish(r)
        \/ FindModule(r) \/ FindQuestions(r) \/ Supersede(r)
        \/ Oracle(r, OracleOutcomes) \/ Save(r)

Spec == Init /\ [][Next]_vars

(***************************************************************************)
(* One analysis request, m1 holding two questions and m2 three, with the   *)
(* oracle answering on a finer scale                                       *)
(***************************************************************************)
InitCalc ==
    /\ modules = [m \in ModuleIds |-> IF m = "m1" THEN <<LO1, LO2>> ELSE <<LO1>>]
    /\ questions = [id \in {1, 2, 3, 5, 6} |->
                        UploadedQuestion(IF id < 3 THEN "m1" ELSE "m2")]
    /\ coverage = <<>>
    /\ req = [r \in Slots |-> Idle]

NextCalc ==
    \/ Analyze(1, AnalyzeInputs) \/ AnalyzeFindQuestions(1) \/ AnalyzeRespond(1)
    \/ FindModule(1) \/ FindQuestions(1) \/ Supersede(1)
    \/ Oracle(1, FineOutcomes) \/ Save(1)

SpecCalc == InitCalc /\ [][NextCalc]_vars

\* every await of the run settles: the store and the oracle answer or fail
FairCalc ==
    /\ WF_vars(FindModule(1)) /\ WF_vars(FindQuestions(1)) /\ WF_vars(Supersede(1))
    /\ WF_vars(Oracle(1, FineOutcomes)) /\ WF_vars(Save(1))

SpecCalcFair == InitCalc /\ [][NextCalc]_vars /\ FairCalc

(***************************************************************************)
(* Question creation and upload with the runs they trigger: the requests   *)
(* of Spec other than analyze, and requests that validation rejects        *)
(***************************************************************************)
TriggerBodies ==
    CreateInputs \cup {Body("m1", "q", "Essay", NoOptions, ""),
                       Body("m1", "", "Structured", NoOptions, "")}

TriggerUploads == UploadInputs \cup {""}

NextTrigger ==
    \E r \in Slots :
        \/ CreateQuestion(r, TriggerBodies) \/ CreateSave(r)
        \/ Upload(r, TriggerUploads) \/ UploadSave(r) \/ UploadFinish(r)
        \/ FindModule(r) \/ FindQuestions(r) \/ Supersede(r)
        \/ Oracle(r, OracleOutcomes) \/ Save(r)

SpecTrigger == Init /\ [][NextTrigger]_vars

(***************************************************************************)
(* Reports read while a run replaces the records of an earlier run: m1     *)
(* with the two records that a run left in its default scope               *)
(***************************************************************************)
\* the record that an earlier run, 0, saved k-th for m1 from one answer
EarlierRecord(k) ==
    NewCoverage(0, [Idle EXCEPT !.moduleId = "m1",
                                !.locals.module = <<LO1, LO2>>,
                                !.locals.li = k, !.locals.qs = <<1>>,
                                !.locals.asked = <<Answer("num", 695)>>],
                <<[questionId |-> 1, similarityScore |-> 695]>>, 695, k)

ReportAnalyzeInputs ==
    {[moduleId |-> "m1", questionIds |-> NoIds, analysisTag |-> tag] : tag \in Tags}

InitReport ==
    /\ modules = [m \in ModuleIds |-> IF m = "m1" THEN <<LO1, LO2>> ELSE <<LO1>>]
    /\ questions = (1 :> UploadedQuestion("m1")) @@ (3 :> UploadedQuestion("m2"))
    /\ coverage = <<EarlierRecord(1), EarlierRecord(2)>>
    /\ req = [r \in Slots |-> Idle]

NextReport ==
    \E r \in Slots :
        \/ Analyze(r, ReportAnalyzeInputs) \/ AnalyzeFindQuestions(r) \/ AnalyzeRespond(r)
        \/ FindModule(r) \/ FindQuestions(r) \/ Supersede(r)
        \/ Oracle(r, OracleOutcomes) \/ Save(r)
        \/ Report(r) \/ ReportFind(r)

SpecReport == InitReport /\ [][NextReport]_vars

(***************************************************************************)
(* POST /api/ai/generate-questions                                         *)
(***************************************************************************)
MaxGenerated == 2    \* MCQs the generator returns, and AI questions saved

GeneratedIds == {20 + i : i \in 1..MaxGenerated}

\* an MCQ of the generator's JSON: options is an array or absent,
\* correctAnswer is "" when absent
MCQ(options, correctAnswer) == [options |-> options, correctAnswer |-> correctAnswer]

\* the generator returns MCQs with 0 to 5 options and a correctAnswer, and
\* MCQs with no correctAnswer that have no options array, 0 or 2 options
GeneratedMCQs ==
    {MCQ(Options(SubSeq(<<"a", "b", "c", "d", "e">>, 1, n)), "b") : n \in 0..5}
    \cup {MCQ(options, "") : options \in {NoOptions, Options(<<>>), Options(<<"a", "b">>)}}

\* the mcqs of one answer of generateQuestions; its structured questions,
\* saved with no options (ai.js lines 84-98), are left out
GeneratorOutputs ==
    UNION {[1..n -> GeneratedMCQs] : n \in 0..MaxGenerated}

\* what is asked for: a learning outcome of m1, one it does not have, and one
\* of an unknown module
GenerateInputs ==
    {[moduleId |-> "m1", loId |-> "LO1"], [moduleId |-> "m1", loId |-> "LO9"],
     [moduleId |-> UnknownModule, loId |-> "LO1"]}

\* `Option ${String.fromCharCode(65 + options.length)}`
Placeholder(length) == <<"Option A", "Option B", "Option C", "Option D">>[length + 1]

\* ai.js lines 66-68: while (options.length < 4) options.push(...)
RECURSIVE PadOptions(_)
PadOptions(options) ==
    IF Len(options) < 4
    THEN PadOptions(Append(options, Placeholder(Len(options))))
    ELSE options

GeneratedOptionsUncut(mcq) == PadOptions(mcq.options.list)

\* ai.js line 64: (mcq.options || []).slice(0, 4), then the padding
GeneratedOptions(mcq) ==
    PadOptions(SubSeq(mcq.options.list, 1, Min(4, Len(mcq.options.list))))

\* ai.js lines 70-77: new Question({...}) for a generated MCQ
GeneratedQuestion(moduleId, mcq) ==
    LET options == GeneratedOptions(mcq)
    IN [Question(moduleId, "MCQ", "AI", options,
                 IF mcq.correctAnswer # "" THEN mcq.correctAnswer ELSE options[1])
        EXCEPT !.generated = <<mcq>>]

Generated == Cardinality(DOMAIN questions \cap GeneratedIds)

NextGeneratedId == CHOOSE i \in GeneratedIds \ DOMAIN questions :
                       \A j \in GeneratedIds \ DOMAIN questions : i <= j

\* ai.js lines 23-49: the request arrives, Module.findById answers and the
\* learning outcome is looked up
Generate(r) ==
    /\ Free(r)
    /\ \E in \in GenerateInputs, ok \in BOOLEAN :
         LET q == [Idle EXCEPT !.kind = "generate", !.moduleId = in.moduleId]
         IN req' = [req EXCEPT ![r] =
                IF ~ok THEN [Respond(q, 500) EXCEPT !.failedAt = "read"]
                ELSE IF q.moduleId \notin DOMAIN modules THEN Respond(q, 404)
                ELSE IF \A k \in DOMAIN modules[q.moduleId] :
                           modules[q.moduleId][k].loId # in.loId
                THEN Respond(q, 404)
                ELSE [q EXCEPT !.pc = "ai_generate"]]
    /\ UNCHANGED <<modules, questions, coverage>>

\* ai.js lines 52-61: generateQuestions answers with its MCQs, or throws;
\* with no MCQ to save the response follows at once (lines 100-110)
GenerateAnswer(r) ==
    /\ req[r].pc = "ai_generate"
    /\ \E ok \in BOOLEAN, mcqs \in GeneratorOutputs :
         /\ Generated + Len(mcqs) <= MaxGenerated
         /\ req' = [req EXCEPT ![r] =
                IF ~ok THEN [Respond(req[r], 500) EXCEPT !.failedAt = "oracle"]
                ELSE IF Len(mcqs) = 0 THEN Respond(req[r], 200)
                ELSE [req[r] EXCEPT !.pc = "ai_save", !.mcqs = mcqs]]
    /\ UNCHANGED <<modules, questions, coverage>>

\* ai.js lines 62-80 and 100-110: the next MCQ is padded and saved; after
\* the last one the response is sent
GenerateSave(r) ==
    /\ req[r].pc = "ai_save"
    /\ Generated < MaxGenerated
    /\ \E ok \in BOOLEAN :
         LET q == req[r]
             question == GeneratedQuestion(q.moduleId, Head(q.mcqs))
         IN IF ~ok
            THEN /\ req' = [req EXCEPT ![r] =
                                [Respond(q, 500) EXCEPT !.failedAt = "save"]]
                 /\ UNCHANGED questions
            ELSE /\ questions' = questions @@ (NextGeneratedId :> question)
                 /\ req' = [req EXCEPT ![r] =
                        IF Len(q.mcqs) = 1 THEN Respond(q, 200)
                        ELSE [q EXCEPT !.mcqs = Tail(q.mcqs)]]
    /\ UNCHANGED <<modules, coverage>>

(***************************************************************************)
(* The Question collection under create, update and generation: m1 with a  *)
(* Structured and an MCQ question                                          *)
(***************************************************************************)
\* bodies of POST /api/questions: fields left out, a text of blanks, types
\* in and out of the enum, options too few or blank
QuestionBodies ==
    {Body(moduleId, questionText, questionType, options, "a") :
        moduleId \in {"m1", ""}, questionText \in {"q", " "},
        questionType \in {"MCQ", "Structured", "Essay", ""},
        options \in {NoOptions, Options(<<"a">>), Options(<<"a", " ">>),
                     Options(<<"a", "", "b">>)}}

\* bodies of PUT /api/questions/:id
QuestionUpdates ==
    {UpdateBody("", questionType, options, "") :
        questionType \in {"", "MCQ", "Essay"},
        options \in {NoOptions, Options(<<"a", " ">>), Options(<<"a", "b">>)}}

InitQuestions ==
    /\ modules = ("m1" :> <<LO1>>)
    /\ questions = (1 :> UploadedQuestion("m1"))
                   @@ (2 :> Question("m1", "MCQ", "Manual", <<"a", "b">>, "a"))
    /\ coverage = <<>>
    /\ req = [r \in Slots |-> Idle]

\* the runs that creations trigger take their steps in Spec and SpecAdmin
NextQuestions ==
    \/ \E r \in Slots :
        \/ CreateQuestion(r, QuestionBodies) \/ CreateSave(r)
        \/ Generate(r) \/ GenerateAnswer(r) \/ GenerateSave(r)
    \/ UpdateQuestion(QuestionUpdates)

SpecQuestions == InitQuestions /\ [][NextQuestions]_vars

(***************************************************************************)
(* The analysis, the read routes and the routes that edit modules and      *)
(* questions, over one module with one learning outcome and one question   *)
(***************************************************************************)
\* the bodies of PUT /api/questions/:id
UpdateInputs == {UpdateBody("", "MCQ", NoOptions, "")}
\* the analyses asked for, and the question created
AdminAnalyzeInputs ==
    {[moduleId |-> "m1", questionIds |-> NoIds, analysisTag |-> tag] : tag \in Tags}
AdminCreateInputs == {Body("m1", "q", "Structured", NoOptions, "")}

InitAdmin ==
    /\ modules = ("m1" :> <<LO1>>)
    /\ questions = (1 :> UploadedQuestion("m1"))
    /\ coverage = <<>>
    /\ req = [r \in Slots |-> Idle]

NextAdmin ==
    \/ \E r \in Slots :
        \/ Analyze(r, AdminAnalyzeInputs) \/ AnalyzeFindQuestions(r) \/ AnalyzeRespond(r)
        \/ CreateQuestion(r, AdminCreateInputs) \/ CreateSave(r)
        \/ FindModule(r) \/ FindQuestions(r) \/ Supersede(r)
        \/ Oracle(r, OracleOutcomes) \/ Save(r)
        \/ Report(r) \/ ReportFind(r) \/ Stats(r) \/ StatsFind(r)
        \/ AnalysisTags(r)
    \/ CreateModule \/ UpdateModule \/ DeleteModule
    \/ DeleteQuestion \/ UpdateQuestion(UpdateInputs)

SpecAdmin == InitAdmin /\ [][NextAdmin]_vars

(***************************************************************************)
(* Properties                                                              *)
(***************************************************************************)
\* the run of slot r returns in this step
Returns(r) == req[r].pc \in RunPcs /\ req'[r].pc \notin RunPcs

OfScope(rec, m, tag) == rec.moduleId = m /\ rec.analysisTag = tag

ScopeSet(m, tag) == {rec \in Range(coverage) : OfScope(rec, m, tag)}

\* what C1 claims of the run of slot r when it returns
SupersededAndFramed(r) ==
    /\ \A i \in DOMAIN coverage' :
         OfScope(coverage'[i], req[r].moduleId, req[r].analysisTag)
            => coverage'[i].writer = r
    /\ RecordsOutside(coverage', req[r].moduleId, req[r].analysisTag) = req[r].before

C2_ReportLatestPerLO ==
    \A m \in ModuleIds, tag \in Tags :
        LET report == GetReport(coverage, m, tag)
        IN /\ \A i, j \in DOMAIN report : i # j => report[i].loId # report[j].loId
           /\ \A i \in DOMAIN report :
                /\ report[i] \in ScopeSet(m, tag)
                /\ \A rec \in ScopeSet(m, tag) :
                     rec.loId = report[i].loId => rec.analyzedAt <= report[i].analyzedAt
           /\ \A rec \in ScopeSet(m, tag) : \E i \in DOMAIN report : report[i].loId = rec.loId

\* two records of one (module, scope, loId), the later-built one saved first
C2_Witness ==
    \E i, j \in DOMAIN coverage :
        /\ i < j
        /\ OfScope(coverage[j], coverage[i].moduleId, coverage[i].analysisTag)
        /\ coverage[i].loId = coverage[j].loId
        /\ coverage[i].analyzedAt > coverage[j].analyzedAt

\* C3 as stated: for every module and scope, the status counts of getStats are
\* the status tallies of getReport's results and its averageCoverage is the
\* rounded mean of their percentages.
C3_StatsOverDeduplicated ==
    \A m \in ModuleIds, tag \in Tags :
        LET report == GetReport(coverage, m, tag)
            stats == GetStats(coverage, m, tag)
        IN /\ stats.covered = CountStatus(report, "Covered")
           /\ stats.partiallyCovered = CountStatus(report, "Partially Covered")
           /\ stats.notCovered = CountStatus(report, "Not Covered")
           /\ stats.averageCoverage =
                IF Len(report) = 0 THEN 0
                ELSE MathRound(SumPercentage(report), Len(report))

CoveredIds(questionsCovered) ==
    {questionsCovered[k].questionId : k \in DOMAIN questionsCovered}

\* C4: while a run works on a learning outcome, a question it has asked the
\* oracle about is in questionsCovered if and only if that call did not throw
\* and returned a score strictly above 0.3; the same holds of the record built.
C4_CoveredIffAboveThreshold ==
    \A r \in Slots :
        LET l == req[r].locals
        IN /\ \A i \in DOMAIN l.asked :
                l.qs[i] \in CoveredIds(l.questionsCovered)
                    <=> (l.asked[i].t # "fail" /\ calculateSimilarity(l.asked[i]) > 300)
           /\ l.doc # <<>> =>
                /\ Len(l.asked) = Len(l.qs)
                /\ l.doc[1].questionsCovered = l.questionsCovered

\* a record built from an answer of exactly 0.3, which does not count, and an
\* answer of 0.304, which does
C4_Witness ==
    \E r \in Slots :
        LET l == req[r].locals
        IN /\ l.doc # <<>>
           /\ \E i, j \in DOMAIN l.asked :
                /\ l.asked[i] = Answer("num", 300)
                /\ l.qs[i] \notin CoveredIds(l.doc[1].questionsCovered)
                /\ l.asked[j] = Answer("num", 304)
                /\ l.qs[j] \in CoveredIds(l.doc[1].questionsCovered)

Scores(rec) == [k \in DOMAIN rec.questionsCovered |->
                    rec.questionsCovered[k].similarityScore]

\* p is x rounded half up, for x = 100 * (sum / n) / 1000
RoundedMeanPercent(p, sum, n) ==
    /\ 10 * n * (2 * p - 1) <= 2 * sum
    /\ 2 * sum < 10 * n * (2 * p + 1)

\* C5: every stored record has coveragePercentage = min(100, round(100 * mean
\* of the scores of its covering questions)), and percentage 0 with status
\* Not Covered when it has no covering question.
C5_PercentageIsRoundedMean ==
    \A i \in DOMAIN coverage :
        LET rec == coverage[i]
            n == Len(rec.questionsCovered)
        IN IF n = 0
           THEN rec.coveragePercentage = 0 /\ rec.status = "Not Covered"
           ELSE \E p \in 0..100 :
                    /\ RoundedMeanPercent(p, SumSeq(Scores(rec)), n)
                    /\ rec.coveragePercentage = IF p < 100 THEN p ELSE 100

\* the scenario of the specification: of three questions two cover the
\* learning outcome, with scores 0.8 and 0.5
C5_Witness ==
    \E i \in DOMAIN coverage :
        /\ coverage[i].questionCount = 3
        /\ Scores(coverage[i]) = <<800, 500>>
        /\ coverage[i].coveragePercentage = 65
        /\ coverage[i].status = "Partially Covered"

\* C6: every stored record has an integer coveragePercentage in 0..100, and
\* its status is Covered iff the percentage is at least 70, Partially Covered
\* iff it is at least 30 and below 70, Not Covered iff it is below 30.
C6_StatusFollowsPercentage ==
    \A i \in DOMAIN coverage :
        LET rec == coverage[i]
        IN /\ rec.coveragePercentage \in 0..100
           /\ rec.status \in {"Covered", "Partially Covered", "Not Covered"}
           /\ rec.status = "Covered" <=> rec.coveragePercentage >= 70
           /\ rec.status = "Partially Covered"
                <=> (rec.coveragePercentage >= 30 /\ rec.coveragePercentage < 70)
           /\ rec.status = "Not Covered" <=> rec.coveragePercentage < 30

\* records at the thresholds: 30 and 69 are Partially Covered, 70 is Covered
C6_Witness ==
    /\ \E i \in DOMAIN coverage :
         coverage[i].coveragePercentage = 70 /\ coverage[i].status = "Covered"
    /\ \E i \in DOMAIN coverage :
         /\ coverage[i].coveragePercentage \in {30, 69}
         /\ coverage[i].status = "Partially Covered"

FailedPairs(l) == {i \in DOMAIN l.asked : l.asked[i].t = "fail"}

\* the scores that did not throw and cleared 0.3, in the order asked
RECURSIVE CountedScores(_)
CountedScores(asked) ==
    IF asked = <<>> THEN <<>>
    ELSE LET a == Head(asked)
         IN (IF a.t # "fail" /\ calculateSimilarity(a) > 300
             THEN <<calculateSimilarity(a)>> ELSE <<>>) \o CountedScores(Tail(asked))

\* the oracle call of slot r answers or throws in this step
OracleReturns(r) == req[r].pc = "oracle" /\ req'[r] # req[r]

\* C7: an oracle call that throws does not end the run: the run goes on with
\* the next question or builds the record, the pair adds nothing to
\* questionsCovered and the sum; every record is built after all questions of
\* its learning outcome were asked, from the pairs that did not throw; and a
\* run that meets no store error saves a record for every learning outcome.
C7_OracleFailureSkipsPair ==
    /\ [][\A r \in Slots : OracleReturns(r) =>
            /\ req'[r].pc \in {"oracle", "save"}
            /\ req'[r].run = "running"
            /\ Len(req'[r].locals.asked) = Len(req[r].locals.asked) + 1
            /\ req'[r].locals.asked[Len(req'[r].locals.asked)].t = "fail" =>
                 /\ req'[r].locals.questionsCovered = req[r].locals.questionsCovered
                 /\ req'[r].locals.totalSimilarity = req[r].locals.totalSimilarity]_vars
    /\ [](\A r \in Slots :
            LET l == req[r].locals
            IN l.doc # <<>> =>
                 /\ Len(l.asked) = Len(l.qs)
                 /\ \A i \in FailedPairs(l) :
                        l.qs[i] \notin CoveredIds(l.doc[1].questionsCovered)
                 /\ Scores(l.doc[1]) = CountedScores(l.asked))
    /\ [][\A r \in Slots :
            Returns(r) /\ req'[r].run = "completed" =>
                \A k \in DOMAIN req[r].locals.module :
                    \E i \in DOMAIN coverage' :
                        /\ coverage'[i].writer = r
                        /\ coverage'[i].loId = req[r].locals.module[k].loId]_vars

\* the first question of LO2 threw, the second one is covered, and the run,
\* one of whose calls for LO1 threw as well, has saved LO1's record
C7_Witness ==
    \E r \in Slots :
        LET l == req[r].locals
        IN /\ l.li = 2 /\ l.doc # <<>>
           /\ l.asked[1].t = "fail"
           /\ Len(l.doc[1].questionsCovered) = 1
           /\ \E i \in DOMAIN coverage :
                /\ coverage[i].writer = r /\ coverage[i].loId = "LO1"
                /\ coverage[i].questionCount = 2
                /\ Len(coverage[i].questionsCovered) = 1

\* C8 as stated: a POST /analyze/:moduleId whose run failed (a read, the
\* deleteMany or a save threw) is answered with success false.
C8_FailedAnalysisReportsFailure ==
    \A r \in Slots :
        (req[r].kind = "analyze" /\ req[r].run = "failed" /\ req[r].response.status # 0)
            => ~req[r].response.success

\* C9: once a create or upload request has triggered its run, its response is
\* 201 with success true and stays so, while the run is in progress and
\* whatever becomes of it (skipped, completed, failed).
C9_ResponseIndependentOfRun ==
    \A r \in Slots :
        (req[r].kind \in {"create", "upload"} /\ req[r].run # "none")
            => req[r].response = [status |-> 201, success |-> TRUE]

\* a create request and an upload request, both answered 201, the run of one
\* failed and the run of the other still in progress
C9_Witness ==
    \E r, t \in Slots :
        /\ req[r].kind = "create" /\ req[t].kind = "upload"
        /\ {req[r].run, req[t].run} = {"failed", "running"}
        /\ req[r].response.status = 201 /\ req[t].response.status = 201

NamedIds(q) == Range(q.questionIds.ids)

C11_EarlyExitIsNoOp ==
    /\ [][\A r \in Slots :
            Returns(r) /\ req'[r].run = "skipped" =>
                /\ coverage' = coverage
                /\ req[r].pc \in {"module", "questions"}
                /\ ~req[r].superseded /\ ~req'[r].superseded
                /\ req[r].locals.asked = <<>> /\ ~req[r].locals.threw
                /\ req'[r].failedAt = "none"
                /\ req'[r].response.status \in {0, 201}]_vars
    /\ [](\A r \in Slots :
            req[r].pc \in {"delete", "oracle", "save"} =>
                Len(req[r].locals.module) > 0 /\ Len(req[r].locals.qs) > 0)

\* an analysis of m1, whose learning outcomes were removed after an earlier
\* run, has returned early and the earlier run's records are still stored
C11_Witness ==
    \E r \in Slots :
        /\ req[r].kind = "analyze" /\ req[r].pc = "r_find" /\ req[r].run = "skipped"
        /\ "m1" \in DOMAIN modules /\ modules["m1"] = <<>>
        /\ ScopeSet(req[r].moduleId, req[r].analysisTag) # {}

\* the non-null scope labels of the records stored for module m
StoredTags(m) ==
    {rec.analysisTag : rec \in {x \in Range(coverage) : x.moduleId = m}} \ {NULL}

\* C12 as stated: every non-null label an analysis run on M has used is
\* listed by listTags(M) once the run has returned, here even of the runs
\* only that met no error.
C12_TagsEverUsedAreListed ==
    [][\A r \in Slots :
         Returns(r) /\ req'[r].run # "failed" /\ req[r].analysisTag # NULL =>
            req[r].analysisTag \in ListTags(coverage', req[r].moduleId)]_vars

\* C12 amended: listTags(M) is exactly the set of non-null labels of the
\* records now stored for M, and GET /analysis-tags answers with it; a label
\* enters it only when a run called on M with that label saves a record, so
\* it holds no label used only on another module, and never the null scope.
C12_TagsOfStoredRecords ==
    /\ [](\A m \in ModuleIds \cup {UnknownModule} :
            /\ ListTags(coverage, m) = StoredTags(m)
            /\ NULL \notin ListTags(coverage, m))
    /\ [][\A m \in ModuleIds \cup {UnknownModule} :
            \A tag \in ListTags(coverage', m) \ ListTags(coverage, m) :
                \E r \in Slots : /\ req[r].pc = "save" /\ req'[r] # req[r]
                                  /\ req[r].moduleId = m
                                  /\ req[r].analysisTag = tag]_vars
    /\ [][\A r \in Slots :
            req[r].kind = "none" /\ req'[r].kind = "tags"
                /\ req'[r].response.status = 200 =>
                    req'[r].result.tags = StoredTags(req'[r].moduleId)]_vars

\* GET /analysis-tags/m1 has answered with the one label t1
C12_Witness ==
    \E r \in Slots :
        /\ req[r].kind = "tags" /\ req[r].response.status = 200
        /\ req[r].moduleId = "m1" /\ req[r].result.tags = {"t1"}

\* a record without its timestamp (and without the run that built it)
Strip(rec) == [f \in DOMAIN rec \ {"analyzedAt", "writer"} |-> rec[f]]

StripAll(recs) == [i \in DOMAIN recs |-> Strip(recs[i])]

\* the run of slot r, returning in this step, repeats the run that wrote the
\* records old it deleted: one completed, undisturbed run, on the same
\* learning outcomes, questionIds and resolved questions, and the oracle
\* answered this run as it answered that one
RepeatsRun(r, old, new) ==
    /\ old # <<>>
    /\ \E w \in Slots \ {r} :
         /\ \A i \in DOMAIN old : old[i].writer = w
         /\ req[w].run = "completed" /\ req[w].alone
    /\ [i \in DOMAIN old |-> old[i].loId]
          = [k \in DOMAIN req[r].locals.module |-> req[r].locals.module[k].loId]
    /\ \A i \in DOMAIN old :
         /\ old[i].qs = req[r].locals.qs
         /\ old[i].analyzedQuestions = req[r].questionIds
    /\ \A i \in DOMAIN old \cap DOMAIN new : new[i].asked = old[i].asked

\* C13: when a run on (M, S) completes undisturbed and it repeated the run
\* before it on (M, S) (same learning outcomes, same questions, same oracle
\* answers), the records of (M, S) are, timestamps apart, the records that
\* were there after the first run.
C13_SecondRunLeavesSameRecords ==
    [][\A r \in Slots :
         LET new == ScopeRecords(coverage', req[r].moduleId, req[r].analysisTag)
         IN (/\ Returns(r) /\ req'[r].run = "completed" /\ req'[r].alone
             /\ RepeatsRun(r, req[r].locals.old, new))
            => StripAll(new) = StripAll(req[r].locals.old)]_vars

\* the second of two runs on m1 is about to save its last record, having
\* deleted the two records of the first and got the same answers so far
C13_Witness ==
    \E r \in Slots :
        LET l == req[r].locals
        IN /\ req[r].pc = "save" /\ req[r].alone /\ l.li = 2
           /\ Len(l.old) = 2
           /\ \E w \in Slots \ {r} : req[w].run = "completed" /\ req[w].alone
           /\ l.old[2].qs = l.qs /\ l.old[2].asked = l.asked
           /\ Strip(l.doc[1]) = Strip(l.old[2])
           /\ \E i \in DOMAIN coverage :
                coverage[i].writer = r /\ Strip(coverage[i]) = Strip(l.old[1])

\* C14: a step that changes the Coverage collection is the deleteMany or a
\* save of a run, and changes no module and no question; so the read routes
\* and the routes that create, update and delete modules and questions leave
\* every record as it is, the records of a deleted module included.
C14_OnlyTheEngineWrites ==
    [][coverage' # coverage =>
          /\ \E r \in Slots : req[r].pc \in {"delete", "save"} /\ req'[r] # req[r]
          /\ modules' = modules /\ questions' = questions]_vars

\* m1 was deleted, its records are still stored and have since been read
C14_Witness ==
    /\ "m1" \notin DOMAIN modules
    /\ \E i \in DOMAIN coverage : coverage[i].moduleId = "m1"
    /\ \E r \in Slots : /\ req[r].kind = "tags" /\ req[r].response.status = 200
                         /\ req[r].moduleId = "m1" /\ req[r].result.tags # {}

\* id names a question of module m
Resolves(id, m) ==
    IF id \in DOMAIN questions THEN questions[id].moduleId = m ELSE FALSE

\* C15 as stated: POST /analyze/:moduleId whose questionIds names an id that
\* is not a question of the module starts no run (it is rejected).
C15_UnresolvedIdsRejected ==
    \A r \in Slots :
        (/\ req[r].kind = "analyze" /\ req[r].questionIds.given
         /\ \E id \in NamedIds(req[r]) : ~Resolves(id, req[r].moduleId))
            => req[r].run = "none"

\* C16 as stated: every stored MCQ question has at least 2 non-empty options.
C16_StoredMCQHasTwoOptions ==
    \A id \in DOMAIN questions :
        questions[id].questionType = "MCQ" =>
            Len(ValidOptions(questions[id].options)) >= 2

\* the generated MCQ the AI question id was made from
GeneratedOf(id) == questions[id].generated[1]

\* "Option <letter>" for the letter of position i
OptionLetter(i) ==
    IF i = 1 THEN "Option A" ELSE IF i = 2 THEN "Option B"
    ELSE IF i = 3 THEN "Option C" ELSE "Option D"

\* C17: every saved AI question has exactly 4 options, the first min(n, 4)
\* of the n generated ones followed by "Option <letter>" of the position
\* filled, and the generated correctAnswer or else its first option; and a
\* generation request fails only when a store operation or the generator
\* call itself threw.
C17_GeneratedMCQPaddedToFour ==
    /\ \A id \in DOMAIN questions \cap GeneratedIds :
         LET question == questions[id]
             given == GeneratedOf(id).options.list
         IN /\ question.questionType = "MCQ" /\ question.source = "AI"
            /\ Len(question.options) = 4
            /\ \A i \in 1..4 :
                 question.options[i] =
                     IF i <= Len(given) THEN given[i] ELSE OptionLetter(i)
            /\ question.correctAnswer =
                 IF GeneratedOf(id).correctAnswer # "" THEN GeneratedOf(id).correctAnswer
                 ELSE question.options[1]
    /\ \A r \in Slots :
         req[r].kind = "generate" /\ req[r].response.status = 500
            => req[r].failedAt \in {"read", "oracle", "save"}

\* an MCQ generated with 2 options and no correctAnswer was saved with
\* "Option C" and "Option D", and one generated with 5 options with its
\* first 4, and the request was answered 200
C17_Witness ==
    /\ \E id \in DOMAIN questions \cap GeneratedIds :
         /\ GeneratedOf(id) = MCQ(Options(<<"a", "b">>), "")
         /\ questions[id].options = <<"a", "b", "Option C", "Option D">>
         /\ questions[id].correctAnswer = "a"
    /\ \E id \in DOMAIN questions \cap GeneratedIds :
         /\ Len(GeneratedOf(id).options.list) = 5
         /\ questions[id].options = <<"a", "b", "c", "d">>
    /\ \E r \in Slots : req[r].kind = "generate" /\ req[r].response.status = 200

\* C18: a report that reads the store answers 200 with one result per
\* deduplicated record; a result whose loId is not among the learning
\* outcomes of the module, as the request read it, carries description and
\* bloomLevel "Unknown", and otherwise the description and level that this
\* learning outcome has now, not those it had when the run wrote the record.
C18_ReportJoinsCurrentOutcomes ==
    [][\A r \in Slots :
        req[r].pc = "g_find" /\ req'[r] # req[r] =>
            LET learningOutcomes == req[r].locals.module
                reports == GetReport(coverage, req[r].moduleId, req[r].analysisTag)
                results == req'[r].result.results
            IN /\ req'[r].response.status = 500 => req'[r].failedAt = "read"
               /\ req'[r].response.status \in {200, 500}
               /\ req'[r].response.status = 200 =>
                    /\ Len(results) = Len(reports)
                    /\ \A i \in DOMAIN results :
                         /\ results[i].loId = reports[i].loId
                         /\ IF \A k \in DOMAIN learningOutcomes :
                                   learningOutcomes[k].loId # reports[i].loId
                            THEN /\ results[i].description = "Unknown"
                                 /\ results[i].bloomLevel = "Unknown"
                            ELSE \A k \in DOMAIN learningOutcomes :
                                   learningOutcomes[k].loId = reports[i].loId =>
                                      /\ results[i].description = learningOutcomes[k].description
                                      /\ results[i].bloomLevel = learningOutcomes[k].bloomLevel]_vars

\* a run wrote the record of LO1, LO1 was then removed from m1, and a report
\* was answered 200 with "Unknown" for that record
C18_Witness ==
    \E r \in Slots :
        /\ req[r].kind = "report" /\ req[r].response.status = 200
        /\ Len(req[r].result.results) = 1
        /\ req[r].result.results[1].loId = "LO1"
        /\ req[r].result.results[1].description = "Unknown"
        /\ req[r].result.results[1].bloomLevel = "Unknown"
        /\ "m1" \in DOMAIN modules /\ modules["m1"] = <<>>

\* the records of module m, scope label tag and learning outcome loId
RecordsOf(store, m, tag, loId) ==
    {i \in DOMAIN store : /\ store[i].moduleId = m /\ store[i].analysisTag = tag
                          /\ store[i].loId = loId}

\* no write of one run fell inside another run
NoRunsOverlapped(slots) == \A s \in Slots : slots[s].alone

C20_DuplicatesComeFromOverlap ==
    \A i, j \in DOMAIN coverage :
        (/\ i # j
         /\ coverage[i].moduleId = coverage[j].moduleId
         /\ coverage[i].analysisTag = coverage[j].analysisTag
         /\ coverage[i].loId = coverage[j].loId)
        => /\ coverage[i].writer # coverage[j].writer
           /\ ~(req[coverage[i].writer].alone /\ req[coverage[j].writer].alone)

\* both runs have finished, and one scope holds two records of LO1, one
\* written by each run
C20_Witness ==
    /\ \A r \in Slots : req[r].run = "completed"
    /\ \E i, j \in DOMAIN coverage :
         /\ coverage[i].moduleId = coverage[j].moduleId
         /\ coverage[i].analysisTag = coverage[j].analysisTag
         /\ coverage[i].loId = "LO1" /\ coverage[j].loId = "LO1"
         /\ coverage[i].writer = 1 /\ coverage[j].writer = 2

\* C21 as stated: a synchronous analysis whose run completed answers with
\* exactly one result per learning outcome of the module, each the record
\* that its own run wrote, also when another run on the scope overlaps it.
C21_AnswerIsOwnRunsRecords ==
    [][\A r \in Slots :
        (/\ req[r].pc = "r_find" /\ req[r].run = "completed"
         /\ req'[r].response.status = 200) =>
            LET results == req'[r].result.results
                learningOutcomes == modules[req[r].moduleId]
            IN /\ \A k \in DOMAIN learningOutcomes :
                    Cardinality({i \in DOMAIN results :
                                   results[i].loId = learningOutcomes[k].loId}) = 1
               /\ \A i \in DOMAIN results : results[i].writer = r]_vars

\* C22 as stated: every stored record's analyzedQuestions is, when a subset
\* was supplied, exactly the set of questions its run resolved, and is empty
\* when none was supplied; and its questionCount is the size of the
\* resolved set.
C22_AnalyzedQuestionsAreResolvedSet ==
    \A i \in DOMAIN coverage :
        LET rec == coverage[i]
        IN /\ IF rec.analyzedQuestions.given /\ Len(rec.analyzedQuestions.ids) > 0
              THEN Range(rec.analyzedQuestions.ids) = Range(rec.qs)
              ELSE rec.analyzedQuestions.ids = <<>>
           /\ rec.questionCount = Len(rec.qs)

\* C23: when a run that no other run disturbed fails at the save of its
\* k-th learning outcome, it stops with nothing written by that save, the
\* records its deleteMany removed are not in the store, and its scope holds
\* exactly the records it saved for the k - 1 learning outcomes before.
C23_FailedRunLeavesPartialScope ==
    [][\A r \in Slots :
        (/\ Returns(r) /\ req'[r].run = "failed" /\ req'[r].failedAt = "save"
         /\ req'[r].alone) =>
            LET q == req[r]
                rest == ScopeRecords(coverage', q.moduleId, q.analysisTag)
            IN /\ coverage' = coverage
               /\ \A i \in DOMAIN q.locals.old :
                    q.locals.old[i] \notin Range(coverage')
               /\ Len(rest) = q.locals.li - 1
               /\ \A i \in DOMAIN rest :
                    /\ rest[i].writer = r
                    /\ rest[i].loId = q.locals.module[i].loId]_vars

\* a run replaced the two records of an earlier run on m1, saved its record
\* of LO1 and failed at the save of LO2: the store holds that one record
C23_Witness ==
    \E r \in Slots :
        /\ req[r].run = "failed" /\ req[r].failedAt = "save" /\ req[r].alone
        /\ req[r].replaced = 2
        /\ Len(coverage) = 1
        /\ coverage[1].writer = r /\ coverage[1].loId = "LO1"

\* the records that the run of slot r wrote, in the order written
WrittenBy(store, r) == FilterSeq(store, {rec \in Range(store) : rec.writer = r})

\* C24: when every await settles, every started run finishes; an oracle
\* call for the qi-th question of the li-th learning outcome is made when
\* the qi - 1 questions before have been asked for this learning outcome and
\* the records of the li - 1 learning outcomes before are saved; and a run
\* that completes has saved, for each learning outcome in turn, a record
\* built from one call for each question of the resolved set.
C24_RunFinishesOneCallPerPair ==
    /\ \A r \in Slots : (req[r].run = "running") ~> (req[r].run # "running")
    /\ [][\A r \in Slots : OracleReturns(r) =>
            LET l == req[r].locals
            IN /\ l.qi \in DOMAIN l.qs /\ l.li \in DOMAIN l.module
               /\ Len(l.asked) = l.qi - 1
               /\ Len(WrittenBy(coverage, r)) = l.li - 1
               /\ l.doc = <<>>]_vars
    /\ [][\A r \in Slots : Returns(r) /\ req'[r].run = "completed" =>
            LET l == req[r].locals
                written == WrittenBy(coverage', r)
            IN /\ l.qs = ResolveQuestions(questions, req[r].moduleId, req[r].questionIds)
               /\ Len(written) = Len(l.module)
               /\ \A k \in DOMAIN written :
                    /\ written[k].loId = l.module[k].loId
                    /\ Len(written[k].asked) = Len(l.qs)]_vars

\* a run on m1 has completed after 4 oracle calls: 2 learning outcomes, 2
\* questions, and LO1's record was saved before LO2's
C24_Witness ==
    /\ req[1].run = "completed"
    /\ Len(coverage) = 2
    /\ coverage[1].loId = "LO1" /\ coverage[2].loId = "LO2"
    /\ \A i \in DOMAIN coverage :
         /\ Len(coverage[i].asked) = 2 /\ coverage[i].qs = <<1, 2>>
         /\ coverage[i].writer = 1

\* the run of slot r is called in this step
Starts(r) == req[r].run = "none" /\ req'[r].run = "running"

\* C25: a creation or upload request is answered 201 exactly in the step
\* that calls its run, and there is no second call; the run is called for
\* the request's module with no questionIds and no tag, when every question
\* of the request is saved in the store; a request answered 400, 404 or 500
\* has called no run; and the question set the run resolves is all the
\* questions of the module and includes those the request saved.
C25_SavedThenOneDefaultRun ==
    [][\A r \in Slots : req'[r].kind \in {"create", "upload"} =>
        /\ Starts(r) <=> (req[r].response.status # 201 /\ req'[r].response.status = 201)
        /\ Starts(r) =>
             /\ req'[r].pc = "module"
             /\ req'[r].moduleId = req[r].moduleId
             /\ req'[r].analysisTag = NULL /\ req'[r].questionIds = NoIds
             /\ req'[r].left = 0
             /\ req'[r].kind = "create" => Cardinality(req'[r].saved) = 1
             /\ \A id \in req'[r].saved :
                  id \in DOMAIN questions' /\ questions'[id].moduleId = req'[r].moduleId
        /\ req[r].run # "none" =>
             /\ req'[r].run # "none"
             /\ req[r].run # "running" => req'[r].run = req[r].run
        /\ req'[r].response.status \in {400, 404, 500} => req'[r].run = "none"
        /\ req[r].pc = "questions" /\ req'[r].pc = "delete" =>
             /\ Range(req'[r].locals.qs) =
                    {id \in DOMAIN questions : questions[id].moduleId = req[r].moduleId}
             /\ req[r].saved \subseteq Range(req'[r].locals.qs)
        /\ req[r].pc = "questions" /\ req'[r].run = "skipped" => req[r].saved = {}]_vars

\* the run that a creation called has resolved a question set that holds the
\* new question, and a request that validation rejected has called none
C25_Witness ==
    /\ \E r \in Slots :
         /\ req[r].kind = "create" /\ req[r].response.status = 201
         /\ req[r].pc = "delete" /\ req[r].saved # {}
         /\ req[r].saved \subseteq Range(req[r].locals.qs)
    /\ \E r \in Slots :
         /\ req[r].kind \in {"create", "upload"}
         /\ req[r].response.status = 400 /\ req[r].run = "none"

\* the records in the store and those built and not yet saved
BuiltRecords ==
    Range(coverage) \cup UNION {Range(req[r].locals.doc) : r \in Slots}

\* C26: for every record a run builds, status "Not Covered",
\* coveragePercentage 0 and an empty questionsCovered are equivalent, and no
\* coveragePercentage is in 1..29.
C26_NotCoveredIffZeroIffEmpty ==
    \A rec \in BuiltRecords :
        /\ rec.status = "Not Covered" <=> rec.coveragePercentage = 0
        /\ rec.coveragePercentage = 0 <=> rec.questionsCovered = <<>>
        /\ rec.coveragePercentage \notin 1..29

\* of the two records of a run, one was built from answers of 0.3 and below
\* and is Not Covered at 0 with nothing covered, the other from one answer
\* just above 0.3 and is Partially Covered at 30
C26_Witness ==
    \E i, j \in DOMAIN coverage :
        /\ coverage[i].status = "Not Covered"
        /\ coverage[i].coveragePercentage = 0
        /\ coverage[i].questionsCovered = <<>>
        /\ \E k \in DOMAIN coverage[i].asked : coverage[i].asked[k] = Answer("num", 300)
        /\ coverage[j].status = "Partially Covered"
        /\ coverage[j].coveragePercentage = 30
        /\ Len(coverage[j].questionsCovered) = 1
        /\ \E k \in DOMAIN coverage[j].asked : coverage[j].asked[k] = Answer("num", 304)

\* the runs in progress on the scope of module m and scope label tag
ActiveOn(m, tag) ==
    {s \in Slots : /\ Running(s) /\ req[s].moduleId = m
                   /\ ScopeOf(req[s].analysisTag) = tag}

\* the runs that wrote the records a report answered with
WritersOf(store, results) ==
    {rec.writer : rec \in {x \in Range(store) :
        \E i \in DOMAIN results : /\ results[i].loId = x.loId
                                   /\ results[i].analyzedAt = x.analyzedAt}}

\* C27: a report on (M, S) answered while one run is in progress on (M, S),
\* with no write of another run since that run was called, answers with the
\* latest record of each loId in the scope, and these are all written by
\* the run in progress or all written before it.
C27_ReportDuringRunIsUnmixed ==
    [][\A g \in Slots :
        (/\ req[g].pc = "g_find" /\ req'[g].response.status = 200) =>
            LET tag == ScopeOf(req[g].analysisTag)
                active == ActiveOn(req[g].moduleId, tag)
                reports == GetReport(coverage, req[g].moduleId, req[g].analysisTag)
                results == req'[g].result.results
            IN (Cardinality(active) = 1 /\ \A s \in active : req[s].alone) =>
                 /\ Len(results) = Len(reports)
                 /\ \A i \in DOMAIN results :
                      /\ results[i].loId = reports[i].loId
                      /\ results[i].analyzedAt = reports[i].analyzedAt
                 /\ \A s \in active :
                      \/ WritersOf(coverage, results) \subseteq {s}
                      \/ s \notin WritersOf(coverage, results)]_vars

\* a run has replaced the two earlier records of its scope and saved its
\* record of LO1, and a report answered since holds that record alone
C27_Witness ==
    \E g, s \in Slots :
        /\ req[g].kind = "report" /\ req[g].response.status = 200
        /\ req[s].pc \in {"oracle", "save"} /\ req[s].locals.li = 2
        /\ req[s].replaced = 2 /\ req[s].alone
        /\ Len(coverage) = 1 /\ coverage[1].writer = s
        /\ Len(req[g].result.results) = 1
        /\ req[g].result.results[1].loId = "LO1"
        /\ req[g].result.results[1].analyzedAt = coverage[1].analyzedAt

\* C28: a step that changes the Coverage collection is the deleteMany or
\* the save of one run and leaves every record outside that run's scope as
\* it was; and when a run completes and no other run was called for its
\* scope, the scope holds exactly the records this run saved, one for each
\* learning outcome in turn, whichever runs on other scopes overlapped it.
C28_ScopesAreIsolated ==
    /\ [][coverage' # coverage =>
            \E r \in Slots :
                /\ req[r].pc \in {"delete", "save"} /\ req'[r] # req[r]
                /\ RecordsOutside(coverage', req[r].moduleId, ScopeOf(req[r].analysisTag))
                     = RecordsOutside(coverage, req[r].moduleId, ScopeOf(req[r].analysisTag))]_vars
    /\ [][\A r \in Slots :
            (/\ Returns(r) /\ req'[r].run = "completed"
             /\ \A s \in Slots \ {r} : req[s].scope # req[r].scope) =>
                LET rest == ScopeRecords(coverage', req[r].moduleId, req[r].analysisTag)
                IN /\ Len(rest) = Len(req[r].locals.module)
                   /\ \A k \in DOMAIN rest :
                        /\ rest[k].writer = r
                        /\ rest[k].loId = req[r].locals.module[k].loId
                        /\ rest[k].qs = req[r].locals.qs]_vars

\* a default-scope run and a tagged run on m1 have written into one another
\* and completed, and each scope holds the two records of its own run
C28_Witness ==
    \E r, s \in Slots :
        /\ req[r].run = "completed" /\ ~req[r].alone
        /\ req[s].run = "completed" /\ ~req[s].alone
        /\ req[r].scope = <<[moduleId |-> "m1", analysisTag |-> NULL]>>
        /\ req[s].scope = <<[moduleId |-> "m1", analysisTag |-> "t1"]>>
        /\ Len(coverage) = 4
        /\ \A i \in DOMAIN coverage :
             coverage[i].writer = (IF coverage[i].analysisTag = NULL THEN r ELSE s)

\* C29 as stated: whenever no run is in progress for (M, S), the tallies of
\* getStats(M, S) add up to at most totalLOs, the number of learning
\* outcomes the module has now.
C29_TalliesWithinTotal ==
    \A m \in DOMAIN modules, tag \in Tags :
        ActiveOn(m, tag) = {} =>
            LET stats == GetStats(coverage, m, tag)
            IN stats.covered + stats.partiallyCovered + stats.notCovered
                   <= stats.totalLOs

\* C30: in every stored record the entries of questionsCovered name pairwise
\* distinct questions, each of the question set its run resolved, with a
\* score above 0.3 and at most 1, so that there are at most questionCount
\* of them.
C30_CoveredQuestionsDistinctAndScored ==
    \A rec \in Range(coverage) :
        LET covered == rec.questionsCovered
        IN /\ \A i, j \in DOMAIN covered :
                covered[i].questionId = covered[j].questionId => i = j
           /\ \A i \in DOMAIN covered :
                /\ covered[i].questionId \in Range(rec.qs)
                /\ covered[i].similarityScore > 300
                /\ covered[i].similarityScore <= 1000
           /\ Len(covered) <= rec.questionCount

\* a stored record covers both questions of m1, one with an answer of 1.5
\* kept as 1, and another record of the run covers one of the two, the other
\* question having scored 0.3
C30_Witness ==
    \E i, j \in DOMAIN coverage :
        /\ Len(coverage[i].questionsCovered) = 2
        /\ coverage[i].questionCount = 2
        /\ coverage[i].asked[1] = Answer("num", 1500)
        /\ coverage[i].questionsCovered[1].similarityScore = 1000
        /\ Len(coverage[j].questionsCovered) = 1
        /\ coverage[j].questionCount = 2
        /\ Answer("num", 300) \in Range(coverage[j].asked)

====
